---------------------------- MODULE Spec2Model ----------------------------
(***************************************************************************)
(* Model of the contract-management application: the edge functions       *)
(* (chat, contracts-chat, regulatory-digest and the four versions of       *)
(* contract-api found in the source tree), the contract editor's debounced *)
(* save, the 24-hour schema cache, the streaming chat parser and the       *)
(* deadline arithmetic of the analytics page.                              *)
(*                                                                         *)
(* Each subsystem has its own specification (SpecEdge, SpecEditor,         *)
(* SpecSchema, SpecSSE, SpecDays); the variables of the other subsystems   *)
(* keep their initial values in it.                                        *)
(***************************************************************************)
EXTENDS Integers, Sequences, FiniteSets, TLC

VARIABLES
    \* ---- edge functions ----
    ef,            \* the edge function (and version) that serves the request
    env,           \* Deno.env: which secrets are configured
    epc,           \* position of the handler: "idle", "awaiting", "done"
    req,           \* the request being handled
    pending,       \* the upstream fetch in flight (NoFetch when none)
    upstreamCalls, \* upstream endpoints fetched while handling req, in order
    outcome,       \* what the upstream did (NoOutcome when it was not asked)
    resp,          \* the Response returned (NoResp while none)
    uploadTimeout, \* upload: the setTimeout that aborts the fetch
    \* ---- the clock shared by the browser-side subsystems (ms) ----
    now,
    \* ---- contract editor ----
    edVersion,        \* which ContractEditor of the file: "current" or "earlier"
    contract,         \* the fields as displayed
    originalContract, \* the fields as last loaded or saved
    saveStatus,       \* 'idle' | 'saving' | 'saved' | 'error'
    timers,           \* the browser's pending setTimeout callbacks
    saveTimeoutRef,   \* saveTimeoutRef.current
    savedTimeoutRef,  \* savedTimeoutRef.current
    inflight,         \* debouncedSave calls awaiting updateField
    edits,            \* history: every handleFieldChange call
    saves,            \* history: every debouncedSave call
    lastSaved,     \* per field, the value of the last save that succeeded upstream
    \* ---- schema cache (useAirtableSchema) ----
    storage,          \* localStorage['airtable_schema']
    schemaPc,         \* fetchSchema: "idle" or "awaiting" the backend
    lastFetch,        \* history: the latest fetchSchema call
    \* ---- streaming useChat ----
    sentLines,        \* the lines the server sends, as it composed them
    wire,             \* the bytes of the response body not yet read
    decoderPending,   \* TextDecoder: bytes of an incomplete character
    textBuffer,       \* textBuffer
    assistantContent, \* assistantContent
    messages,         \* the conversation's messages
    ssePc,            \* sendMessage: "reading" the body, "ended" or "failed"
    \* ---- Analytics: days until a deadline ----
    dateStr,          \* getDaysUntil's first argument
    referenceDate,    \* getDaysUntil's second argument, an instant (ms)
    tzOffset,         \* local time minus UTC (ms)
    days,             \* what getDaysUntil returned (NotCalled before)
    \* ---- chat hooks (useChat, useContractsChat) ----
    chatVersion,          \* which hook: "part_011", "part_012", "useContractsChat"
    conversations,        \* the conversations state, newest first
    conversationsRef,     \* conversationsRef.current
    activeConversationId, \* 0 for null
    isLoading,
    chatRequests,         \* the sendMessage calls awaiting their fetch
    nextConversationId,   \* the next crypto.randomUUID()
    nextCall,             \* the number of the next sendMessage call
    chatLog,              \* history: what every sendMessage call saw and sent
    chatSettled,          \* history: every sendMessage call that settled
    \* ---- upload (Upload page, upload dialog of the contracts page) ----
    upVersion,        \* "Upload.tsx" or "part_005"
    uploadState,      \* 'idle' | 'selected' | 'uploading' | 'error'
    selectedFile,     \* whether a file is selected
    uploadError,      \* whether an error message is set
    uploadDialogOpen, \* part_005: the dialog is open (TRUE on the Upload page)
    abortController,  \* abortController.current: "null", "armed", "aborted"
    uploads,          \* the uploadContract calls in flight
    location,         \* 0: the page itself; n: /contracts/<id of upload n>
    nextUpload        \* the number of the next handleUpload call

edgeVars == <<ef, env, epc, req, pending, upstreamCalls, outcome, resp,
              uploadTimeout>>

editorVars == <<edVersion, contract, originalContract, saveStatus, timers,
                saveTimeoutRef, savedTimeoutRef, inflight, edits, saves,
                lastSaved>>

schemaVars == <<storage, schemaPc, lastFetch>>

sseVars == <<sentLines, wire, decoderPending, textBuffer, assistantContent,
             messages, ssePc>>

daysVars == <<dateStr, referenceDate, tzOffset, days>>

chatVars == <<chatVersion, conversations, conversationsRef,
              activeConversationId, isLoading, chatRequests,
              nextConversationId, nextCall, chatLog, chatSettled>>

uploadVars == <<upVersion, uploadState, selectedFile, uploadError,
                uploadDialogOpen, abortController, uploads, location,
                nextUpload>>

vars == <<ef, env, epc, req, pending, upstreamCalls, outcome, resp,
          uploadTimeout, now,
          edVersion, contract, originalContract, saveStatus, timers,
          saveTimeoutRef, savedTimeoutRef, inflight, edits, saves, lastSaved,
          storage, schemaPc, lastFetch,
          sentLines, wire, decoderPending, textBuffer, assistantContent,
          messages, ssePc,
          dateStr, referenceDate, tzOffset, days,
          chatVersion, conversations, conversationsRef, activeConversationId,
          isLoading, chatRequests, nextConversationId, nextCall, chatLog,
          chatSettled,
          upVersion, uploadState, selectedFile, uploadError, uploadDialogOpen,
          abortController, uploads, location, nextUpload>>

\* The other subsystems at rest.
EdgeIdle ==
    /\ ef = "chat"
    /\ env = [cfKey |-> TRUE, atKey |-> TRUE]
    /\ epc = "idle"
    /\ req = [method |-> "none", carrier |-> "none", action |-> "none",
              hasId |-> FALSE, hasField |-> FALSE, hasFile |-> FALSE,
              format |-> "json"]
    /\ pending = "none"
    /\ upstreamCalls = <<>>
    /\ outcome = [kind |-> "none", status |-> 0, json |-> TRUE, found |-> TRUE]
    /\ resp = [status |-> 0, headers |-> {}, body |-> "none"]
    /\ uploadTimeout = [armed |-> FALSE, deadline |-> 0]

EditorIdle ==
    /\ edVersion = "current"
    /\ contract = <<>>
    /\ originalContract = <<>>
    /\ saveStatus = "idle"
    /\ timers = {}
    /\ saveTimeoutRef = [kind |-> "none", deadline |-> 0, field |-> "",
                         orig |-> "", value |-> ""]
    /\ savedTimeoutRef = [kind |-> "none", deadline |-> 0, field |-> "",
                          orig |-> "", value |-> ""]
    /\ inflight = {}
    /\ edits = <<>>
    /\ saves = <<>>
    /\ lastSaved = <<>>

SchemaIdle ==
    /\ storage = [present |-> FALSE, cachedAt |-> 0]
    /\ schemaPc = "idle"
    /\ lastFetch = [at |-> -1,
                    entry |-> [present |-> FALSE, cachedAt |-> 0],
                    fromCache |-> FALSE, invoked |-> FALSE]

SseIdle ==
    /\ sentLines = <<>>
    /\ wire = <<>>
    /\ decoderPending = <<>>
    /\ textBuffer = <<>>
    /\ assistantContent = <<>>
    /\ messages = <<>>
    /\ ssePc = "ended"

DaysIdle ==
    /\ dateStr = [kind |-> "none", t |-> 0]
    /\ referenceDate = 0
    /\ tzOffset = 0
    /\ days = [kind |-> "null", n |-> 0]

UploadIdle ==
    /\ upVersion = "Upload.tsx"
    /\ uploadState = "idle"
    /\ selectedFile = FALSE
    /\ uploadError = FALSE
    /\ uploadDialogOpen = TRUE
    /\ abortController = "null"
    /\ uploads = {}
    /\ location = 0
    /\ nextUpload = 1

ChatIdle ==
    /\ chatVersion = "part_012"
    /\ conversations = <<>>
    /\ conversationsRef = <<>>
    /\ activeConversationId = 0
    /\ isLoading = FALSE
    /\ chatRequests = {}
    /\ nextConversationId = 1
    /\ nextCall = 1
    /\ chatLog = <<>>
    /\ chatSettled = <<>>

(***************************************************************************)
(*                              EDGE FUNCTIONS                             *)
(***************************************************************************)

\* The handlers in the tree.  contract-api exists in four versions.
ChatFunctions == {"chat", "contracts-chat", "contracts-chat-friendly"}
ContractApiVersions == {"index", "part_001a", "part_001b", "part_000"}
EdgeFunctions == ChatFunctions \cup {"regulatory-digest"} \cup ContractApiVersions

corsHeaders == {"Access-Control-Allow-Origin", "Access-Control-Allow-Headers"}

\* Upstream statuses the model draws from: one success, four failures.
SuccessStatuses == {200}
ErrorStatuses == {404, 429, 500, 502}

NoFetch == "none"
NoResp == [status |-> 0, headers |-> {}, body |-> "none"]
NoOutcome == [kind |-> "none", status |-> 0, json |-> TRUE, found |-> TRUE]
NoReq == [method |-> "none", carrier |-> "none", action |-> "none",
          hasId |-> FALSE, hasField |-> FALSE, hasFile |-> FALSE, format |-> "json"]

\* What the upstream can do with a fetch: answer with a status (its body being
\* JSON or not, the schema holding the configured table or not), fail at the
\* network level (fetch throws), or be aborted by the upload timeout.
Outcomes ==
    { [kind |-> "status", status |-> 200, json |-> j, found |-> f] :
          j \in BOOLEAN, f \in BOOLEAN }
    \cup { [kind |-> "status", status |-> s, json |-> TRUE, found |-> TRUE] :
          s \in ErrorStatuses }
    \cup { [kind |-> k, status |-> 0, json |-> TRUE, found |-> TRUE] :
          k \in {"throw", "abort"} }

ResponseOk(o) == o.kind = "status" /\ o.status >= 200 /\ o.status <= 299

\* Requests.  carrier says where the action travels: "query" (URL parameters,
\* no body), "header" (multipart/form-data with an optional action header),
\* "body" (a JSON body) or "badbody" (neither parameters nor a JSON body).
Actions == {"get", "mark-reviewed", "update-field", "upload", "get-schema",
            "delete", "get-pdf-url", "download-pdf", "get-citations",
            "bogus", "none"}

Requests ==
    { r \in [method : {"OPTIONS", "GET", "POST"},
             carrier : {"query", "header", "body", "badbody"},
             action : Actions,
             hasId : BOOLEAN, hasField : BOOLEAN, hasFile : BOOLEAN,
             format : {"json", "pdf"}] :
        /\ (r.method = "GET" => r.carrier \in {"query", "badbody"})
        /\ (r.carrier = "badbody" =>
               r.action = "none" /\ ~r.hasId /\ ~r.hasField)
        /\ (r.carrier = "header" => ~r.hasId /\ ~r.hasField)
        /\ (r.carrier # "header" => ~r.hasFile)
        /\ (r.carrier = "query" => ~r.hasField)
        /\ (r.method = "OPTIONS" =>
               r.carrier = "badbody" /\ r.format = "json") }

\* ---- Response constructors ----

\* new Response(null, { headers: corsHeaders })
Preflight == [status |-> 200, headers |-> corsHeaders, body |-> "null"]

ErrorResponseNoCors(status) ==
    [status |-> status, headers |-> {"Content-Type"}, body |-> "error"]

\* new Response(JSON.stringify({ error }), { status, headers: {...corsHeaders, ...} })
ErrorResponse(status) ==
    [status |-> status, headers |-> corsHeaders \cup {"Content-Type"},
     body |-> "error"]

\* new Response(JSON.stringify(x), { headers: {...corsHeaders, ...} }): status 200
JsonResponse(body) ==
    [status |-> 200, headers |-> corsHeaders \cup {"Content-Type"}, body |-> body]

\* new Response(pdf, { headers: {...corsHeaders, Content-Type, Content-Disposition} })
PdfResponse ==
    [status |-> 200,
     headers |-> corsHeaders \cup {"Content-Type", "Content-Disposition"},
     body |-> "pdf"]

Respond(r) == [type |-> "respond", resp |-> r, upstream |-> NoFetch, action |-> "none"]
Fetch(u, a) == [type |-> "fetch", resp |-> NoResp, upstream |-> u, action |-> a]


\* ---- chat, contracts-chat (two versions) ----

ChatStartNoKeyCheck(r, e) ==
    IF r.method = "OPTIONS" THEN Respond(Preflight)
    ELSE IF r.carrier # "body" THEN Respond(ErrorResponse(500))
    ELSE Fetch("complyflow", "chat")

\* Up to the fetch: preflight, req.json(), the key check (a throw caught as 500).
ChatStart(r, e) ==
    IF r.method = "OPTIONS" THEN Respond(Preflight)
    ELSE IF r.carrier # "body" THEN Respond(ErrorResponse(500))
    ELSE IF ~e.cfKey THEN Respond(ErrorResponse(500))
    ELSE Fetch("complyflow", "chat")

\* After the fetch: the translated error, the relayed JSON, or the catch block.
ChatFinish(o) ==
    IF o.kind # "status" THEN ErrorResponse(500)
    ELSE IF ~ResponseOk(o) THEN ErrorResponse(o.status)
    ELSE IF ~o.json THEN ErrorResponse(500)
    ELSE JsonResponse("data")

\* ---- regulatory-digest ----

DigestStart(r, e) ==
    IF r.method = "OPTIONS" THEN Respond(Preflight)
    ELSE IF ~e.cfKey THEN Respond(ErrorResponse(500))
    ELSE Fetch("complyflow", "digest")

DigestFinish(r, o) ==
    IF o.kind # "status" THEN ErrorResponse(500)
    ELSE IF ~ResponseOk(o) THEN ErrorResponse(o.status)
    ELSE IF r.format = "pdf" THEN PdfResponse
    ELSE IF ~o.json THEN ErrorResponse(500)
    ELSE JsonResponse("data")

\* ---- contract-api ----

\* The actions each version's switch has a case for.
SupportedActions(v) ==
    CASE v = "index"     -> {"get", "mark-reviewed", "update-field", "upload"}
      [] v = "part_001a" -> {"get", "mark-reviewed", "update-field", "upload"}
      [] v = "part_001b" -> {"get-schema", "get", "mark-reviewed", "update-field",
                             "delete", "upload"}
      [] v = "part_000"  -> {"get-schema", "get-pdf-url", "download-pdf", "get",
                             "mark-reviewed", "update-field", "delete",
                             "get-citations", "upload"}

\* The actions a version sends to Airtable; the others go to the ComplyFlow API.
AirtableActions(v) ==
    CASE v = "index"     -> {"get", "mark-reviewed", "update-field"}
      [] v = "part_001a" -> {"get", "mark-reviewed", "update-field"}
      [] v = "part_001b" -> {"get-schema"}
      [] v = "part_000"  -> {"get-schema", "get-pdf-url"}

NeedsId == {"get", "mark-reviewed", "update-field", "delete", "get-pdf-url",
            "download-pdf", "get-citations"}

\* Only part_000 reads the action and the id from the URL.
ReadsQuery(v) == v = "part_000"

\* The request as the handler parses it: thrown (req.json() failed), or the
\* action, the id and the body it goes on with.
ParseRequest(v, r) ==
    IF ReadsQuery(v) /\ (r.method = "GET" \/ r.carrier = "query")
    THEN [thrown |-> FALSE,
          action |-> IF r.carrier = "query" THEN r.action ELSE "none",
          hasId |-> r.carrier = "query" /\ r.hasId, hasField |-> FALSE]
    ELSE IF r.carrier = "header"
    THEN [thrown |-> FALSE,
          action |-> IF r.action = "none" THEN "upload" ELSE r.action,
          hasId |-> FALSE, hasField |-> FALSE]
    ELSE IF r.carrier = "body"
    THEN [thrown |-> FALSE, action |-> r.action, hasId |-> r.hasId,
          hasField |-> r.hasField]
    ELSE [thrown |-> TRUE, action |-> "none", hasId |-> FALSE, hasField |-> FALSE]

\* case 'upload' up to the fetch.  index.ts answers 501; the other versions
\* check the ComplyFlow key, read the form data (which throws when the request
\* is not multipart) and require the file.
UploadStart(v, r, e) ==
    IF v = "index" THEN Respond(ErrorResponse(501))
    ELSE IF ~e.cfKey THEN Respond(ErrorResponse(500))
    ELSE IF r.carrier # "header" THEN Respond(ErrorResponse(500))
    ELSE IF ~r.hasFile THEN Respond(ErrorResponse(400))
    ELSE Fetch("complyflow", "upload")

AirtableCaseStartNoFieldCheck(a, p) ==
    IF a \in NeedsId /\ ~p.hasId THEN Respond(ErrorResponse(400))
    ELSE Fetch("airtable", a)

\* A case that goes to Airtable: the id check, the field-name check, the fetch.
AirtableCaseStart(a, p) ==
    IF a \in NeedsId /\ ~p.hasId THEN Respond(ErrorResponse(400))
    ELSE IF a = "update-field" /\ ~p.hasField THEN Respond(ErrorResponse(400))
    ELSE Fetch("airtable", a)

\* A case that goes to the ComplyFlow API: the id check, the ComplyFlow key
\* check, the field-name check, the fetch.
ComplyFlowCaseStart(a, p, e) ==
    IF a \in NeedsId /\ ~p.hasId THEN Respond(ErrorResponse(400))
    ELSE IF ~e.cfKey THEN Respond(ErrorResponse(500))
    ELSE IF a = "update-field" /\ ~p.hasField THEN Respond(ErrorResponse(400))
    ELSE Fetch("complyflow", a)

ContractApiSwitchDefault500(v, r, e, p) ==
    IF p.action \notin SupportedActions(v) THEN Respond(ErrorResponse(500))
    ELSE IF p.action = "upload" THEN UploadStart(v, r, e)
    ELSE IF p.action \in AirtableActions(v) THEN AirtableCaseStart(p.action, p)
    ELSE ComplyFlowCaseStart(p.action, p, e)

\* The switch.
ContractApiSwitch(v, r, e, p) ==
    IF p.action \notin SupportedActions(v) THEN Respond(ErrorResponse(400))
    ELSE IF p.action = "upload" THEN UploadStart(v, r, e)
    ELSE IF p.action \in AirtableActions(v) THEN AirtableCaseStart(p.action, p)
    ELSE ComplyFlowCaseStart(p.action, p, e)

\* The handler up to its first fetch.
ContractApiStart(v, r, e) ==
    IF r.method = "OPTIONS" THEN Respond(Preflight)
    ELSE IF ~e.atKey THEN Respond(ErrorResponse(500))
    ELSE IF ParseRequest(v, r).thrown THEN Respond(ErrorResponse(500))
    ELSE ContractApiSwitch(v, r, e, ParseRequest(v, r))


\* Whether the case parses the upstream's success body (await response.json()).
\* The Airtable versions of mark-reviewed and update-field do not read it, and
\* download-pdf reads a blob.
ParsesBody(v, a) ==
    /\ a # "download-pdf"
    /\ ~(a \in {"mark-reviewed", "update-field"} /\ a \in AirtableActions(v))

\* The body of the 200 response of each case.
SuccessBody(v, a) ==
    CASE a = "get"           -> "record"
      [] a = "upload"        -> "record"
      [] a = "mark-reviewed" ->
            IF a \in AirtableActions(v) THEN "success" ELSE "success+result"
      [] a = "update-field"  -> "success"
      [] a = "delete"        -> "success+id"
      [] a = "get-schema"    -> "selectFields"
      [] a = "get-pdf-url"   -> "pdfAvailability"
      [] a = "get-citations" -> "citations"
      [] OTHER               -> "data"

UpstreamErrorAs500(a, o) ==
    IF a = "get-citations" THEN JsonResponse("noCitations")
    ELSE ErrorResponse(500)

\* What a case answers when the upstream's status is not a success.
UpstreamErrorResponse(a, o) ==
    IF a = "get-citations" THEN JsonResponse("noCitations")
    ELSE ErrorResponse(o.status)

\* The handler after its fetch settled, for the action a it was serving.
ContractApiFinish(v, a, o) ==
    IF o.kind = "abort" THEN ErrorResponse(504)
    ELSE IF o.kind = "throw" THEN ErrorResponse(500)
    ELSE IF ~ResponseOk(o) THEN UpstreamErrorResponse(a, o)
    ELSE IF a = "download-pdf" THEN PdfResponse
    ELSE IF ParsesBody(v, a) /\ ~o.json THEN ErrorResponse(500)
    ELSE IF a = "get-schema" /\ ~o.found THEN ErrorResponse(404)
    ELSE JsonResponse(SuccessBody(v, a))

\* ---- the handlers as one function of the edge function's name ----

Start(f, r, e) ==
    IF f \in ChatFunctions THEN ChatStart(r, e)
    ELSE IF f = "regulatory-digest" THEN DigestStart(r, e)
    ELSE ContractApiStart(f, r, e)

Finish(f, r, a, o) ==
    IF f \in ChatFunctions THEN ChatFinish(o)
    ELSE IF f = "regulatory-digest" THEN DigestFinish(r, o)
    ELSE ContractApiFinish(f, a, o)

\* What the handler does once its fetch settled: every path returns a Response,
\* none fetches again.
AfterSettleRefetch(f, r, a, o) ==
    IF f = "part_000" /\ a = "get-pdf-url" /\ ResponseOk(o)
    THEN Fetch("complyflow", "download-pdf")
    ELSE Respond(Finish(f, r, a, o))

AfterSettle(f, r, a, o) == Respond(Finish(f, r, a, o))

\* The outcomes a fetch can have: only the upload carries the abort signal.
OutcomesOf(a) == IF a = "upload" THEN Outcomes
                 ELSE {o \in Outcomes : o.kind # "abort"}

\* The requests a client sends to each function (the chat functions and the
\* digest read no action).
RequestsTo(f) ==
    IF f \in ContractApiVersions THEN {r \in Requests : r.format = "json"}
    ELSE IF f = "regulatory-digest"
    THEN {r \in Requests : r.action = "none" /\ r.carrier = "badbody"}
    ELSE {r \in Requests : r.action = "none" /\ r.format = "json"
                           /\ r.carrier \in {"body", "badbody"}}

Envs == [cfKey : BOOLEAN, atKey : BOOLEAN]

\* setTimeout(() => controller.abort(), 120000), in milliseconds
UploadTimeoutMs == 120000

\* While a fetch is awaited the clock advances in steps of half the upload
\* timeout, up to MaxEdgeTicks steps.
EdgeTickMs == UploadTimeoutMs \div 2
MaxEdgeTicks == 3
MaxEdgeNow == MaxEdgeTicks * EdgeTickMs

NoTimeout == [armed |-> FALSE, deadline |-> 0]

\* const timeoutId = setTimeout(() => controller.abort(), 120000), set right
\* before the upload is forwarded.
SetUploadTimeout(a, t) ==
    IF a = "upload" THEN [armed |-> TRUE, deadline |-> t + UploadTimeoutMs]
    ELSE NoTimeout

\* clearTimeout(timeoutId); the deadline it had is remembered.
ClearUploadTimeout(timer) == [timer EXCEPT !.armed = FALSE]

TimeoutDueNever == FALSE

\* The timer's callback is due: it runs before anything else at that instant,
\* and its controller.abort() rejects the fetch.
TimeoutDue == uploadTimeout.armed /\ now >= uploadTimeout.deadline

InitEdge ==
    /\ ef \in EdgeFunctions
    /\ env \in Envs
    /\ epc = "idle"
    /\ req = NoReq
    /\ pending = NoFetch
    /\ upstreamCalls = <<>>
    /\ outcome = NoOutcome
    /\ resp = NoResp
    /\ uploadTimeout = NoTimeout
    /\ now = 0
    /\ EditorIdle
    /\ SchemaIdle
    /\ SseIdle
    /\ DaysIdle
    /\ ChatIdle
    /\ UploadIdle

\* serve(req): the handler runs to its first await of an upstream fetch, or to
\* the Response it returns without one.
Receive ==
    /\ epc = "idle"
    /\ \E r \in RequestsTo(ef) :
          /\ req' = r
          /\ IF Start(ef, r, env).type = "respond"
             THEN /\ resp' = Start(ef, r, env).resp
                  /\ epc' = "done"
                  /\ UNCHANGED <<pending, upstreamCalls>>
             ELSE /\ pending' = Start(ef, r, env).action
                  /\ upstreamCalls' =
                        Append(upstreamCalls, Start(ef, r, env).upstream)
                  /\ epc' = "awaiting"
                  /\ UNCHANGED resp
          /\ uploadTimeout' =
                IF Start(ef, r, env).type = "respond" THEN NoTimeout
                ELSE SetUploadTimeout(Start(ef, r, env).action, now)
    /\ UNCHANGED <<ef, env, outcome, now>>
    /\ UNCHANGED editorVars
    /\ UNCHANGED schemaVars
    /\ UNCHANGED sseVars
    /\ UNCHANGED daysVars
    /\ UNCHANGED chatVars
    /\ UNCHANGED uploadVars

\* The fetch settles and the handler runs to the Response it returns.
UpstreamSettles ==
    /\ epc = "awaiting"
    /\ \E o \in OutcomesOf(pending) :
          /\ (o.kind = "abort") = TimeoutDue
          /\ outcome' = o
          /\ uploadTimeout' = ClearUploadTimeout(uploadTimeout)
          /\ IF AfterSettle(ef, req, pending, o).type = "respond"
             THEN /\ resp' = AfterSettle(ef, req, pending, o).resp
                  /\ epc' = "done"
                  /\ pending' = NoFetch
                  /\ UNCHANGED upstreamCalls
             ELSE /\ pending' = AfterSettle(ef, req, pending, o).action
                  /\ upstreamCalls' =
                        Append(upstreamCalls,
                               AfterSettle(ef, req, pending, o).upstream)
                  /\ UNCHANGED <<resp, epc>>
    /\ UNCHANGED <<ef, env, req, now>>
    /\ UNCHANGED editorVars
    /\ UNCHANGED schemaVars
    /\ UNCHANGED sseVars
    /\ UNCHANGED daysVars
    /\ UNCHANGED chatVars
    /\ UNCHANGED uploadVars

\* The response has been sent; the function is ready for the next request.
NextRequest ==
    /\ epc = "done"
    /\ epc' = "idle"
    /\ req' = NoReq
    /\ upstreamCalls' = <<>>
    /\ outcome' = NoOutcome
    /\ resp' = NoResp
    /\ uploadTimeout' = NoTimeout
    /\ UNCHANGED <<ef, env, pending, now>>
    /\ UNCHANGED editorVars
    /\ UNCHANGED schemaVars
    /\ UNCHANGED sseVars
    /\ UNCHANGED daysVars
    /\ UNCHANGED chatVars
    /\ UNCHANGED uploadVars

\* Time passes while the upstream has not answered.
TickEdge ==
    /\ epc = "awaiting"
    /\ ~TimeoutDue
    /\ now < MaxEdgeNow
    /\ now' = now + EdgeTickMs
    /\ UNCHANGED edgeVars
    /\ UNCHANGED editorVars
    /\ UNCHANGED schemaVars
    /\ UNCHANGED sseVars
    /\ UNCHANGED daysVars
    /\ UNCHANGED chatVars
    /\ UNCHANGED uploadVars

NextEdge == Receive \/ UpstreamSettles \/ NextRequest \/ TickEdge

SpecEdge == InitEdge /\ [][NextEdge]_vars


(***************************************************************************)
(*                        CLAIMS: EDGE FUNCTIONS                           *)
(***************************************************************************)

\* The key an edge function checks on entry: the Airtable configuration for
\* contract-api, COMPLYFLOW_API_KEY for the others.
KeyMissing == IF ef \in ContractApiVersions THEN ~env.atKey ELSE ~env.cfKey

\* The action contract-api served (none for the other functions).
Served == IF ef \in ContractApiVersions /\ req # NoReq
          THEN ParseRequest(ef, req).action ELSE "none"

UpstreamFailed == outcome.kind = "status" /\ ~ResponseOk(outcome)

\* C1: every Response an edge function returns carries both CORS headers,
\* whichever path produced it.
C1_CorsOnEveryResponse ==
    epc = "done" => corsHeaders \subseteq resp.headers

\* C1 witness: a Response produced by the catch block after the fetch threw.
C1_Witness ==
    /\ epc = "done" /\ outcome.kind = "throw"
    /\ resp.status = 500 /\ corsHeaders \subseteq resp.headers

\* C2 as stated: with the key missing, the request is answered 500 with an
\* error body and nothing is sent upstream.
C2_Original_MissingKeyAlways500 ==
    (epc = "done" /\ KeyMissing) =>
        /\ resp.status = 500 /\ resp.body = "error"
        /\ upstreamCalls = <<>>

\* C2 amended: with the key missing, every request other than a CORS preflight
\* is answered 500 with an error body, no request of any kind is sent upstream,
\* and contract-api never calls the ComplyFlow API without COMPLYFLOW_API_KEY.
C2_MissingKeyNoForward ==
    /\ (epc # "idle" /\ KeyMissing) =>
          /\ epc = "done" /\ upstreamCalls = <<>>
          /\ (req.method # "OPTIONS" =>
                 resp.status = 500 /\ resp.body = "error")
    /\ \A i \in 1..Len(upstreamCalls) :
          upstreamCalls[i] = "complyflow" => env.cfKey

\* C2 witness: a POST answered 500 by a function whose key is missing.
C2_Witness ==
    /\ epc = "done" /\ KeyMissing /\ req.method = "POST"
    /\ resp.status = 500 /\ upstreamCalls = <<>>

\* C3 as stated: a non-success upstream status is relayed as an error body
\* with the same status, for every function and action.
C3_Original_ErrorStatusRelayed ==
    (epc = "done" /\ UpstreamFailed) =>
        resp.body = "error" /\ resp.status = outcome.status

\* C3 amended: a non-success upstream status is relayed as an error body with
\* the same status, except by get-citations, which answers 200 with a
\* citations list.
C3_ErrorStatusRelayedButCitations ==
    (epc = "done" /\ UpstreamFailed) =>
        IF Served = "get-citations"
        THEN resp.status = 200 /\ resp.body = "noCitations"
        ELSE resp.body = "error" /\ resp.status = outcome.status

\* C3 witness: an upstream 404 relayed as a 404 error by contract-api's get.
C3_Witness ==
    /\ epc = "done" /\ UpstreamFailed /\ outcome.status = 404
    /\ Served = "get" /\ resp.status = 404

\* C8: handling one request sends at most one request upstream.
C8_AtMostOneUpstream ==
    Len(upstreamCalls) <= 1

\* C8 witness: part_000 answered a request after one upstream call.
C8_Witness ==
    /\ epc = "done" /\ ef = "part_000" /\ Len(upstreamCalls) = 1
    /\ Served = "get-pdf-url" /\ resp.status = 200


\* The Response version v returns for request r under environment e when its
\* upstream, if it asks one, does o.
FullResponse(v, r, e, o) ==
    IF Start(v, r, e).type = "respond" THEN Start(v, r, e).resp
    ELSE Finish(v, r, Start(v, r, e).action, o)

\* The upstream outcomes to compare the versions under: the one that happened,
\* or every outcome when the serving version asked no upstream.
ComparedOutcomes ==
    IF outcome = NoOutcome THEN {o \in Outcomes : o.kind # "abort"} ELSE {outcome}

\* The requests every version treats alike: a preflight, or a JSON body whose
\* action is get, mark-reviewed or update-field or is supported by no version.
SharedRequest(r) ==
    \/ r.method = "OPTIONS"
    \/ /\ r.carrier = "body"
       /\ r.action \in {"get", "mark-reviewed", "update-field", "bogus", "none"}

\* C9 as stated: for the same request and upstream outcome, every version of
\* contract-api returns the status and the response shape the serving one did.
C9_Original_VersionsInterchangeable ==
    (epc = "done" /\ ef \in ContractApiVersions) =>
        \A v \in ContractApiVersions : \A o \in ComparedOutcomes :
            /\ FullResponse(v, req, env, o).status = resp.status
            /\ FullResponse(v, req, env, o).body = resp.body

\* C9 amended: the versions return the same status only for the requests they
\* share (preflight; JSON-body get, mark-reviewed, update-field and actions no
\* version supports), with COMPLYFLOW_API_KEY configured and a JSON success
\* body upstream, or when the Airtable configuration is missing; the shape is
\* then the same too, except that the ComplyFlow versions add the upstream's
\* fields to mark-reviewed's {success: true}.
C9_VersionsAgreeOnSharedRequests ==
    (epc = "done" /\ ef \in ContractApiVersions) =>
        \A v \in ContractApiVersions : \A o \in ComparedOutcomes :
            (\/ ~env.atKey
             \/ SharedRequest(req) /\ env.cfKey /\ o.json) =>
                /\ FullResponse(v, req, env, o).status = resp.status
                /\ \/ FullResponse(v, req, env, o).body = resp.body
                   \/ /\ Served = "mark-reviewed"
                      /\ {FullResponse(v, req, env, o).body, resp.body}
                            = {"success", "success+result"}

\* C9 witness: part_000 served a get whose upstream answered 200; index.ts
\* returns the same record for it.
C9_Witness ==
    /\ epc = "done" /\ ef = "part_000" /\ env.atKey /\ env.cfKey
    /\ Served = "get" /\ outcome.status = 200 /\ outcome.json
    /\ resp.body = "record"
    /\ FullResponse("index", req, env, outcome) = resp


\* ---- invalid requests to contract-api ----

\* The request as contract-api read it.
Parsed == ParseRequest(ef, req)

\* contract-api read the request (req.json() did not throw) and found it
\* invalid in one of the four ways.
UnsupportedAction == Parsed.action \notin SupportedActions(ef)
MissingId == Parsed.action \in SupportedActions(ef) \cap NeedsId /\ ~Parsed.hasId
MissingFieldName ==
    /\ Parsed.action = "update-field" /\ Parsed.hasId /\ ~Parsed.hasField
MissingFile == Parsed.action = "upload" /\ ~req.hasFile

InvalidRequest ==
    /\ ef \in ContractApiVersions /\ epc # "idle"
    /\ req.method # "OPTIONS" /\ ~Parsed.thrown
    /\ UnsupportedAction \/ MissingId \/ MissingFieldName \/ MissingFile

ReachesValidation ==
    /\ MissingFieldName =>
          ef \in {"index", "part_001a"} \/ env.cfKey
    /\ MissingFile =>
          ef # "index" /\ env.cfKey /\ req.carrier = "header"

UploadForwarded ==
    /\ ef \in ContractApiVersions
    /\ upstreamCalls # <<>>
    /\ upstreamCalls[Len(upstreamCalls)] = "complyflow"
    /\ uploadTimeout.deadline # 0

\* C18: contract-api never waits for the upstream longer than 120 seconds
\* after it forwarded an upload; a forwarded upload that the upstream has not
\* answered by then is aborted, and the caller receives status 504 with an
\* error body; the abort happens at no other moment.
C18_UploadTimesOutWith504 ==
    UploadForwarded =>
        /\ uploadTimeout.deadline <= now + UploadTimeoutMs
        /\ epc = "awaiting" =>
              /\ uploadTimeout.armed
              /\ now <= uploadTimeout.deadline
        /\ epc = "done" =>
              /\ ~uploadTimeout.armed
              /\ now <= uploadTimeout.deadline
              /\ (now = uploadTimeout.deadline) = (outcome.kind = "abort")
              /\ outcome.kind = "abort" =>
                    /\ resp.status = 504
                    /\ resp.body = "error"
                    /\ corsHeaders \subseteq resp.headers

\* An upload was forwarded, 120 s passed without an answer, the fetch was
\* aborted and 504 returned.
C18_Witness ==
    /\ UploadForwarded
    /\ epc = "done"
    /\ now = uploadTimeout.deadline
    /\ now >= UploadTimeoutMs
    /\ outcome.kind = "abort"
    /\ resp.status = 504


\* ---- C19 ----------------------------------------------------------------

\* The upstream citations request was made and failed: the fetch was rejected
\* or the upstream answered with a status that is not a success.
CitationsRequestFailed ==
    /\ epc = "done"
    /\ Served = "get-citations"
    /\ upstreamCalls # <<>>
    /\ outcome.kind = "throw" \/ UpstreamFailed

\* C19 (as written): whenever the upstream citations request fails,
\* get-citations answers with status 200 and an empty citations list, never
\* with an error.
C19_Original_FailedCitationsAreEmpty ==
    CitationsRequestFailed =>
        /\ resp.status = 200
        /\ resp.body = "noCitations"


(***************************************************************************)
(*                            CONTRACT EDITOR                              *)
(***************************************************************************)

\* setTimeout(..., 1000) of handleFieldChange and setTimeout(..., 2000) of
\* debouncedSave, in milliseconds.
DebounceMs == 1000
SavedMs == 2000

\* The clock advances in steps of half the debounce delay.  The user edits
\* during the first MaxTicks steps; after them time passes only until the
\* timers still pending have fired.
TickMs == DebounceMs \div 2
MaxTicks == 3
MaxNow == MaxTicks * TickMs

\* The number of edits the user makes.
MaxEdits == 3

EditorVersions == {"current", "earlier"}
Fields == {"parties", "contractType"}
Values == {"a", "b"}

NoTimer == [kind |-> "none", deadline |-> 0, field |-> "", orig |-> "", value |-> ""]

\* setTimeout(() => debouncedSave(field, originalContract[field], value), 1000)
SaveTimer(t, f, o, v) ==
    [kind |-> "save", deadline |-> t + DebounceMs, field |-> f, orig |-> o,
     value |-> v]

\* setTimeout(() => setSaveStatus('idle'), 2000)
SavedTimer(t) ==
    [kind |-> "saved", deadline |-> t + SavedMs, field |-> "", orig |-> "",
     value |-> ""]

ClearTimeoutNoop(ts, ref) == ts

\* if (ref.current) clearTimeout(ref.current)
ClearTimeout(ts, ref) == ts \ {ref}

\* Timer callbacks that are due run before anything else happens at that instant.
Due == {t \in timers : t.deadline <= now}

Min(S) == CHOOSE x \in S : \A y \in S : x <= y

\* JSON.stringify(originalValue) === JSON.stringify(newValue): updateField
\* returns without calling contract-api.
SkipsRequest(o, v) == o = v

\* The contract has been loaded: contract and originalContract hold it.
InitEditor ==
    /\ EdgeIdle
    /\ now = 0
    /\ edVersion \in EditorVersions
    /\ contract = [f \in Fields |-> "a"]
    /\ originalContract = [f \in Fields |-> "a"]
    /\ saveStatus = "idle"
    /\ timers = {}
    /\ saveTimeoutRef = NoTimer
    /\ savedTimeoutRef = NoTimer
    /\ inflight = {}
    /\ edits = <<>>
    /\ saves = <<>>
    /\ lastSaved = [f \in Fields |-> "a"]
    /\ SchemaIdle
    /\ SseIdle
    /\ DaysIdle
    /\ ChatIdle
    /\ UploadIdle

\* handleFieldChange(field, value)
HandleFieldChange(f, v) ==
    /\ Due = {}
    /\ Len(edits) < MaxEdits
    /\ now <= MaxNow
    /\ contract' = [contract EXCEPT ![f] = v]
    /\ timers' = ClearTimeout(timers, saveTimeoutRef)
                    \cup {SaveTimer(now, f, originalContract[f], v)}
    /\ saveTimeoutRef' = SaveTimer(now, f, originalContract[f], v)
    /\ edits' = Append(edits, [t |-> now, field |-> f, value |-> v])
    /\ UNCHANGED <<edVersion, originalContract, saveStatus, savedTimeoutRef,
                   inflight, saves, lastSaved, now>>
    /\ UNCHANGED edgeVars
    /\ UNCHANGED schemaVars
    /\ UNCHANGED sseVars
    /\ UNCHANGED daysVars
    /\ UNCHANGED chatVars
    /\ UNCHANGED uploadVars

\* The rest of debouncedSave once updateField resolved: 'saved', the 2 s timer
\* back to 'idle', and (current version) originalContract updated.
AfterSaved(s, ts) ==
    /\ saveStatus' = "saved"
    /\ originalContract' =
          IF edVersion = "current"
          THEN [originalContract EXCEPT ![s.field] = s.value]
          ELSE originalContract
    /\ timers' = ClearTimeout(ts, savedTimeoutRef) \cup {SavedTimer(now)}
    /\ savedTimeoutRef' = SavedTimer(now)

\* The debounce timer fires: debouncedSave(field, originalValue, newValue) up to
\* its await of updateField, and through it when updateField sends nothing.
SaveTimerFires ==
    \E t \in Due :
        /\ t.kind = "save"
        /\ saves' = Append(saves, [t |-> now, field |-> t.field,
                                   orig |-> t.orig, value |-> t.value])
        /\ IF SkipsRequest(t.orig, t.value)
           THEN /\ AfterSaved(t, timers \ {t})
                /\ UNCHANGED inflight
           ELSE /\ saveStatus' = "saving"
                /\ inflight' = inflight \cup
                      {[t |-> now, field |-> t.field, orig |-> t.orig,
                        value |-> t.value]}
                /\ timers' = timers \ {t}
                /\ UNCHANGED <<originalContract, savedTimeoutRef>>
        /\ UNCHANGED <<edVersion, contract, saveTimeoutRef, edits, lastSaved,
                       now>>
        /\ UNCHANGED edgeVars
        /\ UNCHANGED schemaVars
        /\ UNCHANGED sseVars
    /\ UNCHANGED daysVars
    /\ UNCHANGED chatVars
    /\ UNCHANGED uploadVars

\* updateField resolves.
SaveSucceeds ==
    \E s \in inflight :
        /\ Due = {}
        /\ inflight' = inflight \ {s}
        /\ AfterSaved(s, timers)
        /\ lastSaved' = [lastSaved EXCEPT ![s.field] = s.value]
        /\ UNCHANGED <<edVersion, contract, saveTimeoutRef, edits, saves, now>>
        /\ UNCHANGED edgeVars
        /\ UNCHANGED schemaVars
        /\ UNCHANGED sseVars
    /\ UNCHANGED daysVars
    /\ UNCHANGED chatVars
    /\ UNCHANGED uploadVars

\* What the catch block of debouncedSave leaves in the displayed contract.
ContractAfterFailure(s) ==
    IF edVersion = "current"
    THEN [contract EXCEPT ![s.field] = s.orig]
    ELSE contract

\* updateField rejects.
SaveFails ==
    \E s \in inflight :
        /\ Due = {}
        /\ inflight' = inflight \ {s}
        /\ saveStatus' = "error"
        /\ contract' = ContractAfterFailure(s)
        /\ UNCHANGED <<edVersion, originalContract, timers, saveTimeoutRef,
                       savedTimeoutRef, edits, saves, lastSaved, now>>
        /\ UNCHANGED edgeVars
        /\ UNCHANGED schemaVars
        /\ UNCHANGED sseVars
    /\ UNCHANGED daysVars
    /\ UNCHANGED chatVars
    /\ UNCHANGED uploadVars

\* The 2 s timer fires: setSaveStatus('idle').
SavedTimerFires ==
    \E t \in Due :
        /\ t.kind = "saved"
        /\ saveStatus' = "idle"
        /\ timers' = timers \ {t}
        /\ UNCHANGED <<edVersion, contract, originalContract, saveTimeoutRef,
                       savedTimeoutRef, inflight, edits, saves, lastSaved, now>>
        /\ UNCHANGED edgeVars
        /\ UNCHANGED schemaVars
        /\ UNCHANGED sseVars
    /\ UNCHANGED daysVars
    /\ UNCHANGED chatVars
    /\ UNCHANGED uploadVars

\* Time passes, up to the next timer's deadline.
TickEditor ==
    /\ Due = {}
    /\ now < MaxNow \/ timers # {}
    /\ now' = IF timers = {} THEN now + TickMs
              ELSE IF now >= MaxNow THEN Min({t.deadline : t \in timers})
              ELSE Min({now + TickMs} \cup {t.deadline : t \in timers})
    /\ UNCHANGED editorVars
    /\ UNCHANGED edgeVars
    /\ UNCHANGED schemaVars
    /\ UNCHANGED sseVars
    /\ UNCHANGED daysVars
    /\ UNCHANGED chatVars
    /\ UNCHANGED uploadVars

NextEditor ==
    \/ \E f \in Fields, v \in Values : HandleFieldChange(f, v)
    \/ SaveTimerFires
    \/ SaveSucceeds
    \/ SaveFails
    \/ SavedTimerFires
    \/ TickEditor

SpecEditor == InitEditor /\ [][NextEditor]_vars


(***************************************************************************)
(*                        CLAIMS: CONTRACT EDITOR                          *)
(***************************************************************************)

\* Edit i ends a burst: no edit follows it by less than the debounce delay.
EndsBurst(i) ==
    i = Len(edits) \/ edits[i + 1].t - edits[i].t >= DebounceMs

\* The bursts whose save is due: the last edit is 1 s old and the timer
\* callback of that instant has run.
SettledBursts ==
    {i \in 1..Len(edits) :
        /\ EndsBurst(i)
        /\ \/ edits[i].t + DebounceMs < now
           \/ /\ edits[i].t + DebounceMs = now
              /\ \A t \in Due : t.kind # "save"}

\* C4: every burst of edits less than 1 s apart has triggered exactly one
\* debouncedSave call, made 1 s after the burst's last edit, for the field and
\* with the value of that edit; there are no other saves.
C4_OneSavePerBurst ==
    /\ Len(saves) = Cardinality(SettledBursts)
    /\ \A i \in SettledBursts :
          LET k == Cardinality({j \in SettledBursts : j <= i})
          IN /\ saves[k].t = edits[i].t + DebounceMs
             /\ saves[k].field = edits[i].field
             /\ saves[k].value = edits[i].value

\* C4 witness: a burst of three edits 500 ms apart, with different values, was
\* saved once with the last value.
C4_Witness ==
    /\ Len(edits) = 3 /\ Len(saves) = 1
    /\ edits[2].t - edits[1].t = TickMs /\ edits[3].t - edits[2].t = TickMs
    /\ edits[1].field = "parties" /\ edits[2].field = "parties"
    /\ edits[3].field = "parties"
    /\ edits[2].value # edits[3].value
    /\ saves[1].value = edits[3].value
    /\ saves[1].t = edits[3].t + DebounceMs

\* C5 as stated: a save that settles either succeeded ('saved') or failed, and
\* then the status is 'error' and the field is back at the original value the
\* save was given.
C5_Original_FailureReverts ==
    [][\A s \in inflight :
          (inflight' = inflight \ {s}) =>
              \/ saveStatus' = "saved"
              \/ saveStatus' = "error" /\ contract'[s.field] = s.orig]_vars


\* The contract as it was loaded.
LoadedContract == [f \in Fields |-> "a"]

\* No timer is pending and no request is in flight.
EditorSettled == timers = {} /\ inflight = {}

\* C11: once all timers and requests have settled, no field displays an
\* edited value for which no save was ever attempted, also when a different
\* field was edited less than 1 s after it.
C11_Original_NoEditLeftUnsaved ==
    EditorSettled =>
        \A f \in Fields :
            \/ contract[f] = LoadedContract[f]
            \/ \E k \in 1..Len(saves) :
                  saves[k].field = f /\ saves[k].value = contract[f]

\* C12: the original value passed to a save of a field is the value most
\* recently saved successfully for that field, or the loaded value if none
\* was saved yet, also when the field was edited again while an earlier save
\* of it was pending or in flight.
C12_Original_OriginalIsLastSaved ==
    [][Len(saves') > Len(saves) =>
          saves'[Len(saves')].orig = lastSaved[saves'[Len(saves')].field]]_vars


(***************************************************************************)
(*                     SCHEMA CACHE (useAirtableSchema)                    *)
(***************************************************************************)

\* const CACHE_TTL = 24 * 60 * 60 * 1000
CACHE_TTL == 86400000

\* The clock runs over MaxDays days, in steps of half a day; from a half-day
\* boundary it can also step by one millisecond, which puts cache ages right
\* below, at and right above the TTL.
HalfTTL == CACHE_TTL \div 2
MaxDays == 2

NoEntry == [present |-> FALSE, cachedAt |-> 0]

IsExpiredInclusive(entry, t) == t - entry.cachedAt >= CACHE_TTL

\* const isExpired = Date.now() - parsed.cachedAt > CACHE_TTL
IsExpired(entry, t) == t - entry.cachedAt > CACHE_TTL

\* getFromLocalStorage(): the schema it returns (hit) and what it leaves in
\* localStorage (an expired entry is removed).
GetFromLocalStorage(entry, t) ==
    IF ~entry.present THEN [hit |-> FALSE, storage |-> entry]
    ELSE IF IsExpired(entry, t) THEN [hit |-> FALSE, storage |-> NoEntry]
    ELSE [hit |-> TRUE, storage |-> entry]

\* saveToLocalStorage(data)
SaveToLocalStorage(t) == [present |-> TRUE, cachedAt |-> t]

InitSchema ==
    /\ EdgeIdle
    /\ EditorIdle
    /\ now = 0
    /\ storage = NoEntry
    /\ schemaPc = "idle"
    /\ lastFetch = [at |-> -1, entry |-> NoEntry, fromCache |-> FALSE,
                    invoked |-> FALSE]
    /\ SseIdle
    /\ DaysIdle
    /\ ChatIdle
    /\ UploadIdle

\* fetchSchema() up to its return of the cached schema or its await of
\* supabase.functions.invoke('contract-api', { body: { action: 'get-schema' } }).
FetchSchema ==
    /\ schemaPc = "idle"
    /\ storage' = GetFromLocalStorage(storage, now).storage
    /\ lastFetch' = [at |-> now, entry |-> storage,
                     fromCache |-> GetFromLocalStorage(storage, now).hit,
                     invoked |-> ~GetFromLocalStorage(storage, now).hit]
    /\ schemaPc' = IF GetFromLocalStorage(storage, now).hit
                   THEN "idle" ELSE "awaiting"
    /\ UNCHANGED now
    /\ UNCHANGED edgeVars
    /\ UNCHANGED editorVars
    /\ UNCHANGED sseVars
    /\ UNCHANGED daysVars
    /\ UNCHANGED chatVars
    /\ UNCHANGED uploadVars

\* The backend answered with the schema: it is saved (unless localStorage
\* throws, which is ignored) and returned.
SchemaArrives ==
    /\ schemaPc = "awaiting"
    /\ \E stored \in BOOLEAN :
          storage' = IF stored THEN SaveToLocalStorage(now) ELSE storage
    /\ schemaPc' = "idle"
    /\ UNCHANGED <<now, lastFetch>>
    /\ UNCHANGED edgeVars
    /\ UNCHANGED editorVars
    /\ UNCHANGED sseVars
    /\ UNCHANGED daysVars
    /\ UNCHANGED chatVars
    /\ UNCHANGED uploadVars

\* The backend call failed: fetchSchema throws, nothing is stored.
SchemaFails ==
    /\ schemaPc = "awaiting"
    /\ schemaPc' = "idle"
    /\ UNCHANGED <<now, storage, lastFetch>>
    /\ UNCHANGED edgeVars
    /\ UNCHANGED editorVars
    /\ UNCHANGED sseVars
    /\ UNCHANGED daysVars
    /\ UNCHANGED chatVars
    /\ UNCHANGED uploadVars

\* Time passes.
TickSchema ==
    /\ \E dt \in {1, HalfTTL} :
          /\ dt = 1 => now % HalfTTL = 0
          /\ now + dt <= MaxDays * CACHE_TTL + 1
          /\ now' = now + dt
    /\ UNCHANGED schemaVars
    /\ UNCHANGED edgeVars
    /\ UNCHANGED editorVars
    /\ UNCHANGED sseVars
    /\ UNCHANGED daysVars
    /\ UNCHANGED chatVars
    /\ UNCHANGED uploadVars

NextSchema == FetchSchema \/ SchemaArrives \/ SchemaFails \/ TickSchema

SpecSchema == InitSchema /\ [][NextSchema]_vars

\* The entry the call found had been stored no more than 24 hours earlier.
FoundFreshEntry ==
    lastFetch.entry.present /\ lastFetch.at - lastFetch.entry.cachedAt <= CACHE_TTL

\* C6: fetchSchema returns the cached schema without calling the backend if
\* and only if it finds an entry stored no more than 24 hours earlier; in
\* every other case it calls contract-api's get-schema.
C6_CacheHitIffFresh ==
    lastFetch.at >= 0 =>
        /\ lastFetch.fromCache <=> FoundFreshEntry
        /\ lastFetch.invoked <=> ~FoundFreshEntry

\* C6 witness: a call that found an entry exactly 24 hours old and returned it
\* without calling the backend.
C6_Witness ==
    /\ lastFetch.entry.present
    /\ lastFetch.at - lastFetch.entry.cachedAt = CACHE_TTL
    /\ lastFetch.fromCache /\ ~lastFetch.invoked


(***************************************************************************)
(*                 STREAMING useChat: THE SSE LINE PARSER                  *)
(***************************************************************************)

\* The number of lines the server sends.
MaxLines == 3

\* The lines a server composes.  A data line carries a JSON object whose
\* choices[0].delta.content is "x" or the two-byte character "é", a JSON object
\* without content, the [DONE] marker, or text that is not JSON.
LineKinds == {"delta-x", "delta-x-crlf", "delta-e-acute", "no-content",
              "done", "comment", "blank", "event", "malformed"}

\* The bytes of a line, without its newline.  "D" stands for the six bytes of
\* 'data: ', "{x}", "{é1" "é2}" and "{}" for JSON objects (é split after its
\* first byte), "[" for '[DONE]', "!" for text that is not JSON, "E" for a field
\* other than data, "CR" for '\r' and "LF" for '\n'.
BytesOf(k) ==
    CASE k = "delta-x"       -> <<"D", "{x}">>
      [] k = "delta-x-crlf"  -> <<"D", "{x}", "CR">>
      [] k = "delta-e-acute" -> <<"D", "{e1", "e2}">>
      [] k = "no-content"    -> <<"D", "{}">>
      [] k = "done"          -> <<"D", "[">>
      [] k = "comment"       -> <<":", "{x}">>
      [] k = "blank"         -> <<>>
      [] k = "event"         -> <<"E", "{x}">>
      [] k = "malformed"     -> <<"D", "!">>

\* The delta content the server put in a line.
DeltaOf(k) ==
    CASE k \in {"delta-x", "delta-x-crlf"} -> <<"x">>
      [] k = "delta-e-acute"               -> <<"e-acute">>
      [] OTHER                             -> <<>>

RECURSIVE Encode(_)
\* The response body: every line followed by a newline.
Encode(ls) ==
    IF ls = <<>> THEN <<>>
    ELSE BytesOf(Head(ls)) \o <<"LF">> \o Encode(Tail(ls))

RECURSIVE Decode(_, _)
\* decoder.decode(value, { stream: true }): the characters of the bytes held
\* over plus the chunk; an incomplete character is held over.
Decode(held, chunk) ==
    IF chunk = <<>> THEN [text |-> <<>>, held |-> held]
    ELSE IF Head(chunk) = "{e1" THEN Decode(<<"{e1">>, Tail(chunk))
    ELSE LET rest == Decode(<<>>, Tail(chunk))
             char == IF held # <<>> THEN "{e}" ELSE Head(chunk)
         IN  [text |-> <<char>> \o rest.text, held |-> rest.held]

\* textBuffer.indexOf('\n'), 0 when there is none
RECURSIVE IndexOfNewline(_)
IndexOfNewline(buf) ==
    IF buf = <<>> THEN 0
    ELSE IF Head(buf) = "LF" THEN 1
    ELSE LET inTail == IndexOfNewline(Tail(buf))
         IN  IF inTail = 0 THEN 0 ELSE 1 + inTail

\* if (line.endsWith('\r')) line = line.slice(0, -1)
StripCR(line) ==
    IF line # <<>> /\ line[Len(line)] = "CR"
    THEN SubSeq(line, 1, Len(line) - 1) ELSE line

\* JSON.parse(jsonStr) succeeds
IsJson(payload) == payload \in {<<"{x}">>, <<"{e}">>, <<"{}">>}

\* parsed.choices?.[0]?.delta?.content
ContentOf(payload) ==
    CASE payload = <<"{x}">> -> <<"x">>
      [] payload = <<"{e}">> -> <<"e-acute">>
      [] OTHER               -> <<>>


\* String.prototype.trim(), of which '\r' is the only whitespace sent here
RECURSIVE Trim(_)
Trim(str) ==
    IF str = <<>> THEN <<>>
    ELSE IF Head(str) = "CR" THEN Trim(Tail(str))
    ELSE IF str[Len(str)] = "CR" THEN Trim(SubSeq(str, 1, Len(str) - 1))
    ELSE str

\* line.startsWith(prefix), for a one-token prefix
StartsWith(line, prefix) == line # <<>> /\ Head(line) = prefix

RECURSIVE ProcessBuffer(_, _)
\* The inner while loop: takes complete lines off the buffer until no newline
\* is left or a break leaves the loop.  Gives the buffer left behind and the
\* content after the calls of updateAssistant.
ProcessBuffer(buf, content) ==
    LET newlineIndex == IndexOfNewline(buf)
        rest    == SubSeq(buf, newlineIndex + 1, Len(buf))
        line    == StripCR(SubSeq(buf, 1, newlineIndex - 1))
        jsonStr == Trim(Tail(line))
    IN  IF newlineIndex = 0 THEN [buf |-> buf, content |-> content]
        ELSE IF StartsWith(line, ":") \/ Trim(line) = <<>>
             THEN ProcessBuffer(rest, content)
        ELSE IF ~StartsWith(line, "D") THEN ProcessBuffer(rest, content)
        ELSE IF jsonStr = <<"[">> THEN [buf |-> rest, content |-> content]
        ELSE IF IsJson(jsonStr)
             THEN ProcessBuffer(rest, content \o ContentOf(jsonStr))
        ELSE [buf |-> line \o <<"LF">> \o rest, content |-> content]

\* updateAssistant's state update: the last message, if the assistant's, takes
\* the accumulated content; otherwise an assistant message is pushed.
UpdateAssistant(msgs, content) ==
    IF msgs # <<>> /\ msgs[Len(msgs)].role = "assistant"
    THEN [msgs EXCEPT ![Len(msgs)].content = content]
    ELSE Append(msgs, [role |-> "assistant", content |-> content])

\* The messages after the calls of updateAssistant in one pass of the inner
\* loop: it is called only for content that is not empty.
MessagesAfter(msgs, before, after) ==
    IF after = before THEN msgs ELSE UpdateAssistant(msgs, after)

RECURSIVE SeqsUpTo(_, _)
\* the sequences over S of length at most n
SeqsUpTo(S, n) ==
    IF n = 0 THEN {<<>>}
    ELSE LET shorter == SeqsUpTo(S, n - 1)
         IN  shorter \cup {Append(q, x) : q \in shorter, x \in S}

\* sendMessage up to the first reader.read(): the user's message is in the
\* conversation, the response is ok and its body is still to be read.
InitSSE ==
    /\ EdgeIdle /\ EditorIdle /\ SchemaIdle /\ DaysIdle /\ ChatIdle
    /\ UploadIdle
    /\ now = 0
    /\ sentLines \in SeqsUpTo(LineKinds, MaxLines)
    /\ wire = Encode(sentLines)
    /\ decoderPending = <<>>
    /\ textBuffer = <<>>
    /\ assistantContent = <<>>
    /\ messages = <<[role |-> "user", content |-> <<"input">>]>>
    /\ ssePc = "reading"

\* reader.read() gives the next n bytes of the body.
ReadChunk ==
    /\ ssePc = "reading"
    /\ \E n \in 1..Len(wire) :
          LET value   == SubSeq(wire, 1, n)
              decoded == Decode(decoderPending, value)
              after   == ProcessBuffer(textBuffer \o decoded.text,
                                       assistantContent)
          IN  /\ wire' = SubSeq(wire, n + 1, Len(wire))
              /\ decoderPending' = decoded.held
              /\ textBuffer' = after.buf
              /\ assistantContent' = after.content
              /\ messages' = MessagesAfter(messages, assistantContent,
                                           after.content)
    /\ UNCHANGED <<sentLines, ssePc, now>>
    /\ UNCHANGED edgeVars
    /\ UNCHANGED editorVars
    /\ UNCHANGED schemaVars
    /\ UNCHANGED daysVars
    /\ UNCHANGED chatVars
    /\ UNCHANGED uploadVars

\* reader.read() gives done: the outer loop is left, nothing is flushed.
ReadDone ==
    /\ ssePc = "reading"
    /\ wire = <<>>
    /\ ssePc' = "ended"
    /\ UNCHANGED <<sentLines, wire, decoderPending, textBuffer,
                   assistantContent, messages, now>>
    /\ UNCHANGED edgeVars
    /\ UNCHANGED editorVars
    /\ UNCHANGED schemaVars
    /\ UNCHANGED daysVars
    /\ UNCHANGED chatVars
    /\ UNCHANGED uploadVars

\* reader.read() rejects: the catch block appends its apology.
ReadFails ==
    /\ ssePc = "reading"
    /\ ssePc' = "failed"
    /\ assistantContent' = assistantContent \o <<"Sorry">>
    /\ messages' = UpdateAssistant(messages, assistantContent')
    /\ UNCHANGED <<sentLines, wire, decoderPending, textBuffer, now>>
    /\ UNCHANGED edgeVars
    /\ UNCHANGED editorVars
    /\ UNCHANGED schemaVars
    /\ UNCHANGED daysVars
    /\ UNCHANGED chatVars
    /\ UNCHANGED uploadVars

NextSSE == ReadChunk \/ ReadDone \/ ReadFails

SpecSSE == InitSSE /\ [][NextSSE]_vars

\* ---- claims about the streaming parser ----

RECURSIVE Expected(_)
\* What the server sent: the delta content of the lines before [DONE], in
\* order.
Expected(ls) ==
    IF ls = <<>> \/ Head(ls) = "done" THEN <<>>
    ELSE DeltaOf(Head(ls)) \o Expected(Tail(ls))

\* The assistant message the page shows (empty when none was pushed).
ShownContent ==
    IF messages[Len(messages)].role = "assistant"
    THEN messages[Len(messages)].content ELSE <<>>

\* Every data line the server sent carries '[DONE]' or valid JSON.
EveryPayloadIsJson ==
    \A i \in 1..Len(sentLines) : sentLines[i] # "malformed"

\* C7: once the stream has ended, the assistant message content is the
\* concatenation, in arrival order, of the delta content of every data line
\* sent before [DONE], however the bytes were split into chunks; comment,
\* blank and non-data lines contribute nothing.  Stated here for the streams
\* whose data lines all carry valid JSON, the least the claim says.
C7_Original_ContentIsDeltasBeforeDone ==
    (ssePc = "ended" /\ EveryPayloadIsJson) =>
        /\ assistantContent = Expected(sentLines)
        /\ ShownContent = Expected(sentLines)

\* sendMessage of the streaming hook has run its finally block.
StreamSettled == ssePc \in {"ended", "failed"}

\* C14, for the streaming hook: once the request has settled the conversation
\* holds the user message followed by exactly one assistant message, and
\* isLoading is false (the finally block has run).
C14_Original_OneAssistantMessage ==
    StreamSettled =>
        /\ Len(messages) = 2
        /\ messages[1].role = "user"
        /\ messages[2].role = "assistant"


(***************************************************************************)
(*                  ANALYTICS: DAYS UNTIL A DEADLINE                       *)
(***************************************************************************)

\* 1000 * 60 * 60 * 24
MsPerDay == 86400000

\* Instants are taken a quarter of a day apart, and one millisecond to either
\* side of each; time zones a quarter of a day to either side of UTC.
QuarterDay == MsPerDay \div 4

\* The number of quarter days to either side of the epoch.
MaxQuarters == 6

Instants ==
    {q * QuarterDay + j : q \in (0 - MaxQuarters)..MaxQuarters, j \in {-1, 0, 1}}

ReferenceDates == {q * QuarterDay + j : q \in 0..3, j \in {0, 1}}

TimeZones == {0 - QuarterDay, 0, QuarterDay}

\* dateStr: null, undefined or '' ("none"), a string Date cannot parse
\* ("invalid"), or a string that parses to the instant t.
DateStrs ==
    {[kind |-> "none", t |-> 0], [kind |-> "invalid", t |-> 0]}
        \cup {[kind |-> "instant", t |-> t] : t \in Instants}

NotCalled == [kind |-> "not-called", n |-> 0]
Null      == [kind |-> "null", n |-> 0]
NaN       == [kind |-> "NaN", n |-> 0]
Number(n) == [kind |-> "number", n |-> n]

\* now.setHours(0, 0, 0, 0): the start of the local day of instant t, in a
\* zone that keeps one offset.
SetHoursZero(t, tz) == t - ((t + tz) % MsPerDay)

MathCeilFloor(diffTime, msPerDay) == diffTime \div msPerDay

\* Math.ceil(diffTime / msPerDay); -0 is the number 0.
MathCeil(diffTime, msPerDay) == 0 - ((0 - diffTime) \div msPerDay)

GetDaysUntil(d, reference, tz) ==
    IF d.kind = "none" THEN Null
    ELSE IF d.kind = "invalid" THEN NaN
    ELSE LET date     == d.t
             midnight == SetHoursZero(reference, tz)
             diffTime == date - midnight
         IN  Number(MathCeil(diffTime, MsPerDay))

\* The page is about to compute the days until one deadline.
InitDays ==
    /\ EdgeIdle /\ EditorIdle /\ SchemaIdle /\ SseIdle /\ ChatIdle
    /\ UploadIdle
    /\ now = 0
    /\ dateStr \in DateStrs
    /\ referenceDate \in ReferenceDates
    /\ tzOffset \in TimeZones
    /\ days = NotCalled

CallGetDaysUntil ==
    /\ days = NotCalled
    /\ days' = GetDaysUntil(dateStr, referenceDate, tzOffset)
    /\ UNCHANGED <<dateStr, referenceDate, tzOffset, now>>
    /\ UNCHANGED edgeVars
    /\ UNCHANGED editorVars
    /\ UNCHANGED schemaVars
    /\ UNCHANGED sseVars
    /\ UNCHANGED chatVars
    /\ UNCHANGED uploadVars

NextDays == CallGetDaysUntil

SpecDays == InitDays /\ [][NextDays]_vars

\* ---- claims about getDaysUntil ----

\* Midnight of the reference day.
Midnight == SetHoursZero(referenceDate, tzOffset)

\* C10 as stated: 0 for the reference day's midnight, strictly positive for
\* every later instant, strictly negative for every instant before it, and
\* null when there is no date.
C10_Original_NegativeBeforeMidnight ==
    days # NotCalled =>
        /\ dateStr.kind = "none" => days = Null
        /\ dateStr.kind = "instant" =>
              /\ days.kind = "number"
              /\ dateStr.t = Midnight => days.n = 0
              /\ dateStr.t > Midnight => days.n > 0
              /\ dateStr.t < Midnight => days.n < 0

\* C10: getDaysUntil is null when there is no date, and otherwise the least
\* whole number of days that reaches from the reference day's midnight to the
\* date: 0 for midnight and for every instant less than a day before it,
\* strictly positive for every later instant, and strictly negative only for
\* the instants a day or more before midnight.
C10_DaysRoundedUp ==
    days # NotCalled =>
        /\ dateStr.kind = "none" <=> days = Null
        /\ dateStr.kind = "instant" =>
              /\ days.kind = "number"
              /\ (days.n - 1) * MsPerDay < dateStr.t - Midnight
              /\ dateStr.t - Midnight <= days.n * MsPerDay
              /\ days.n = 0 <=>
                    (Midnight - MsPerDay < dateStr.t /\ dateStr.t <= Midnight)
              /\ days.n > 0 <=> dateStr.t > Midnight
              /\ days.n < 0 <=> dateStr.t <= Midnight - MsPerDay

\* The date is before the reference day's midnight, by less than a day, and
\* getDaysUntil gave 0.
C10_Witness ==
    /\ dateStr.kind = "instant"
    /\ dateStr.t < Midnight
    /\ dateStr.t > Midnight - MsPerDay
    /\ days = Number(0)

(***************************************************************************)
(*              CHAT HOOKS: useChat AND useContractsChat                   *)
(***************************************************************************)

\* The three hooks that post { query, history } and append the answer.
ChatVersions == {"part_011", "part_012", "useContractsChat"}

\* The number of conversations created and of sendMessage calls made.
MaxConversations == 2
MaxSends == 2

\* The hooks with a conversationsRef kept up to date by an effect.
HasRef(v) == v \in {"part_012", "useContractsChat"}

ConversationIds(convs) == {convs[i].id : i \in 1..Len(convs)}

\* convs.find(c => c.id === id)?.messages || []
MessagesOf(convs, id) ==
    IF id \in ConversationIds(convs)
    THEN (CHOOSE c \in {convs[i] : i \in 1..Len(convs)} : c.id = id).messages
    ELSE <<>>

\* prev.map(conv => conv.id === id ? {...conv, messages: [...conv.messages, msg]} : conv)
AppendMessage(convs, id, msg) ==
    [i \in 1..Len(convs) |->
        IF convs[i].id = id
        THEN [convs[i] EXCEPT !.messages = Append(@, msg)]
        ELSE convs[i]]

\* prev.filter(c => c.id !== id)
WithoutConversation(convs, id) == SelectSeq(convs, LAMBDA c : c.id # id)

UserMessage(call) == [role |-> "user", call |-> call, kind |-> "input"]
AssistantMessage(call, kind) == [role |-> "assistant", call |-> call, kind |-> kind]

\* The effect that copies conversations into conversationsRef has run: it
\* runs after every render, before the next event of the user.
EffectsFlushed == HasRef(chatVersion) => conversationsRef = conversations

HistoryEmpty(v, id) == <<>>

\* The history of the request: the messages of the conversation as the ref
\* holds them, or (part_011) as the render that made sendMessage saw them.
History(v, id) ==
    IF HasRef(v) THEN MessagesOf(conversationsRef, id)
    ELSE MessagesOf(conversations, id)

ReplyTargetActive(r) == activeConversationId

\* The conversation a settled call writes to: the conversationId of its closure.
ReplyTarget(r) == r.conversationId

InitChat ==
    /\ EdgeIdle /\ EditorIdle /\ SchemaIdle /\ SseIdle /\ DaysIdle
    /\ UploadIdle
    /\ now = 0
    /\ chatVersion \in ChatVersions
    /\ conversations = <<>>
    /\ conversationsRef = <<>>
    /\ activeConversationId = 0
    /\ isLoading = FALSE
    /\ chatRequests = {}
    /\ nextConversationId = 1
    /\ nextCall = 1
    /\ chatLog = <<>>
    /\ chatSettled = <<>>

\* createConversation(), from the New Chat button
CreateConversation ==
    /\ EffectsFlushed
    /\ nextConversationId <= MaxConversations
    /\ conversations' =
          <<[id |-> nextConversationId, messages |-> <<>>]>> \o conversations
    /\ activeConversationId' = nextConversationId
    /\ nextConversationId' = nextConversationId + 1
    /\ UNCHANGED <<chatVersion, conversationsRef, isLoading, chatRequests,
                   nextCall, chatLog, chatSettled, now>>
    /\ UNCHANGED edgeVars
    /\ UNCHANGED editorVars
    /\ UNCHANGED schemaVars
    /\ UNCHANGED sseVars
    /\ UNCHANGED daysVars
    /\ UNCHANGED uploadVars

\* deleteConversation(id)
DeleteConversation(id) ==
    /\ EffectsFlushed
    /\ id \in ConversationIds(conversations)
    /\ conversations' = WithoutConversation(conversations, id)
    /\ activeConversationId' =
          IF activeConversationId = id THEN 0 ELSE activeConversationId
    /\ UNCHANGED <<chatVersion, conversationsRef, isLoading, chatRequests,
                   nextConversationId, nextCall, chatLog, chatSettled, now>>
    /\ UNCHANGED edgeVars
    /\ UNCHANGED editorVars
    /\ UNCHANGED schemaVars
    /\ UNCHANGED sseVars
    /\ UNCHANGED daysVars
    /\ UNCHANGED uploadVars

\* setActiveConversationId(id), from the list of conversations
SetActiveConversationId(id) ==
    /\ EffectsFlushed
    /\ id \in ConversationIds(conversations)
    /\ id # activeConversationId
    /\ activeConversationId' = id
    /\ UNCHANGED <<chatVersion, conversations, conversationsRef, isLoading,
                   chatRequests, nextConversationId, nextCall, chatLog,
                   chatSettled, now>>
    /\ UNCHANGED edgeVars
    /\ UNCHANGED editorVars
    /\ UNCHANGED schemaVars
    /\ UNCHANGED sseVars
    /\ UNCHANGED daysVars
    /\ UNCHANGED uploadVars

\* sendMessage(input) up to its await of fetch.
SendMessage ==
    LET create         == activeConversationId = 0
        conversationId == IF create THEN nextConversationId
                          ELSE activeConversationId
        created        == IF create
                          THEN <<[id |-> nextConversationId, messages |-> <<>>]>>
                                   \o conversations
                          ELSE conversations
        history        == History(chatVersion, conversationId)
    IN  /\ EffectsFlushed
        /\ nextCall <= MaxSends
        /\ create => nextConversationId <= MaxConversations
        /\ conversations' =
              AppendMessage(created, conversationId, UserMessage(nextCall))
        /\ activeConversationId' = conversationId
        /\ nextConversationId' =
              IF create THEN nextConversationId + 1 ELSE nextConversationId
        /\ isLoading' = TRUE
        /\ chatRequests' = chatRequests \cup
              {[call |-> nextCall, conversationId |-> conversationId,
                history |-> history]}
        /\ chatLog' = Append(chatLog,
              [call |-> nextCall, conversationId |-> conversationId,
               before |-> MessagesOf(conversations, conversationId),
               history |-> history])
        /\ nextCall' = nextCall + 1
        /\ UNCHANGED <<chatVersion, conversationsRef, chatSettled, now>>
        /\ UNCHANGED edgeVars
        /\ UNCHANGED editorVars
        /\ UNCHANGED schemaVars
        /\ UNCHANGED sseVars
        /\ UNCHANGED daysVars
        /\ UNCHANGED uploadVars

\* The rest of sendMessage: the answer (kind "answer") or, from the catch
\* block, the error notice (kind "error") is appended, then the finally block.
Settle(r, kind) ==
    /\ chatRequests' = chatRequests \ {r}
    /\ conversations' =
          AppendMessage(conversations, ReplyTarget(r),
                        AssistantMessage(r.call, kind))
    /\ isLoading' = FALSE
    /\ chatSettled' = Append(chatSettled,
          [call |-> r.call, conversationId |-> r.conversationId,
           active |-> activeConversationId,
           existed |-> r.conversationId \in ConversationIds(conversations),
           kind |-> kind])
    /\ UNCHANGED <<chatVersion, conversationsRef, activeConversationId,
                   nextConversationId, nextCall, chatLog, now>>
    /\ UNCHANGED edgeVars
    /\ UNCHANGED editorVars
    /\ UNCHANGED schemaVars
    /\ UNCHANGED sseVars
    /\ UNCHANGED daysVars
    /\ UNCHANGED uploadVars

\* fetch resolved with an ok response whose body is JSON.
RequestSucceeds == \E r \in chatRequests : Settle(r, "answer")

\* fetch rejected, the response was not ok, or its body was not JSON.
RequestFails == \E r \in chatRequests : Settle(r, "error")

\* useEffect(() => { conversationsRef.current = conversations }, [conversations])
RunEffect ==
    /\ HasRef(chatVersion)
    /\ conversationsRef # conversations
    /\ conversationsRef' = conversations
    /\ UNCHANGED <<chatVersion, conversations, activeConversationId, isLoading,
                   chatRequests, nextConversationId, nextCall, chatLog,
                   chatSettled, now>>
    /\ UNCHANGED edgeVars
    /\ UNCHANGED editorVars
    /\ UNCHANGED schemaVars
    /\ UNCHANGED sseVars
    /\ UNCHANGED daysVars
    /\ UNCHANGED uploadVars

NextChat ==
    \/ CreateConversation
    \/ \E id \in 1..MaxConversations : DeleteConversation(id)
    \/ \E id \in 1..MaxConversations : SetActiveConversationId(id)
    \/ SendMessage
    \/ RequestSucceeds
    \/ RequestFails
    \/ RunEffect

SpecChat == InitChat /\ [][NextChat]_vars


\* ---- claims about the chat hooks ----

\* C15: the reply of a call is appended to the conversation the query was
\* sent from, whichever conversation is active when the request settles; if
\* that conversation was deleted meanwhile the reply is dropped, and no
\* conversation is created or altered.
C15_ReplyGoesToOrigin ==
    [][\A r \in chatRequests :
          (chatRequests' = chatRequests \ {r}) =>
              /\ Len(conversations') = Len(conversations)
              /\ \A i \in 1..Len(conversations) :
                    /\ conversations'[i].id = conversations[i].id
                    /\ IF conversations[i].id = r.conversationId
                       THEN \E kind \in {"answer", "error"} :
                               conversations'[i].messages =
                                  Append(conversations[i].messages,
                                         AssistantMessage(r.call, kind))
                       ELSE conversations'[i].messages =
                               conversations[i].messages]_vars

\* C15 witness: a call settled while another conversation was active, and its
\* reply is the last message of the conversation it was sent from.
C15_Witness ==
    \E i \in 1..Len(chatSettled) :
        /\ chatSettled[i].existed
        /\ chatSettled[i].active # chatSettled[i].conversationId
        /\ chatSettled[i].active # 0
        /\ LET msgs == MessagesOf(conversations, chatSettled[i].conversationId)
           IN  /\ msgs # <<>>
               /\ msgs[Len(msgs)] =
                     AssistantMessage(chatSettled[i].call, chatSettled[i].kind)

\* C16: the history sent with a query is exactly the messages the
\* conversation held before the new user message, in order, and never holds
\* the new user message.
C16_HistoryIsPriorMessages ==
    \A i \in 1..Len(chatLog) :
        /\ chatLog[i].history = chatLog[i].before
        /\ \A j \in 1..Len(chatLog[i].history) :
              chatLog[i].history[j] # UserMessage(chatLog[i].call)

\* C16 witness: a second query in a conversation was sent with the first
\* query and its answer as history.
C16_Witness ==
    \E i \in 1..Len(chatLog) :
        /\ Len(chatLog[i].history) = 2
        /\ chatLog[i].history[1].role = "user"
        /\ chatLog[i].history[2] = AssistantMessage(chatLog[i].history[1].call,
                                                    "answer")


(***************************************************************************)
(*          UPLOAD: THE UPLOAD PAGE AND THE CONTRACTS PAGE'S DIALOG        *)
(***************************************************************************)

UploadVersions == {"Upload.tsx", "part_005"}

\* The number of handleUpload calls.
MaxUploads == 2

\* The component is still on screen: navigate() has not replaced it.
Mounted == location = 0

\* What the card renders: the processing state with its Cancel button, the
\* selected file with Clear and Upload, or the dropzone; below it, Try again.
ShowsProcessing == Mounted /\ uploadDialogOpen /\ uploadState = "uploading"
ShowsFileSelected ==
    /\ Mounted /\ uploadDialogOpen
    /\ uploadState = "selected" /\ selectedFile
ShowsDropzone ==
    Mounted /\ uploadDialogOpen /\ ~ShowsProcessing /\ ~ShowsFileSelected
ShowsRetry ==
    Mounted /\ uploadDialogOpen /\ uploadState = "error" /\ uploadError

\* uploadContract(selectedFile) takes no AbortSignal: aborting the controller
\* leaves the request in flight.
AbortRequests(reqs) == reqs

InitUpload ==
    /\ EdgeIdle /\ EditorIdle /\ SchemaIdle /\ SseIdle /\ DaysIdle /\ ChatIdle
    /\ now = 0
    /\ upVersion \in UploadVersions
    /\ uploadState = "idle"
    /\ selectedFile = FALSE
    /\ uploadError = FALSE
    /\ uploadDialogOpen = (upVersion = "Upload.tsx")
    /\ abortController = "null"
    /\ uploads = {}
    /\ location = 0
    /\ nextUpload = 1

\* part_005: the Upload button opens the dialog.
OpenUploadDialog ==
    /\ upVersion = "part_005" /\ Mounted /\ ~uploadDialogOpen
    /\ uploadDialogOpen' = TRUE
    /\ UNCHANGED <<upVersion, uploadState, selectedFile, uploadError,
                   abortController, uploads, location, nextUpload, now>>
    /\ UNCHANGED edgeVars
    /\ UNCHANGED editorVars
    /\ UNCHANGED schemaVars
    /\ UNCHANGED sseVars
    /\ UNCHANGED daysVars
    /\ UNCHANGED chatVars

\* part_005: handleCloseUploadDialog()
HandleCloseUploadDialog ==
    /\ upVersion = "part_005" /\ Mounted /\ uploadDialogOpen
    /\ uploadState # "uploading"
    /\ uploadDialogOpen' = FALSE
    /\ uploadState' = "idle"
    /\ selectedFile' = FALSE
    /\ uploadError' = FALSE
    /\ UNCHANGED <<upVersion, abortController, uploads, location, nextUpload,
                   now>>
    /\ UNCHANGED edgeVars
    /\ UNCHANGED editorVars
    /\ UNCHANGED schemaVars
    /\ UNCHANGED sseVars
    /\ UNCHANGED daysVars
    /\ UNCHANGED chatVars

\* handleFileSelect(file)
HandleFileSelect ==
    /\ ShowsDropzone
    /\ selectedFile' = TRUE
    /\ uploadState' = "selected"
    /\ uploadError' = FALSE
    /\ UNCHANGED <<upVersion, uploadDialogOpen, abortController, uploads,
                   location, nextUpload, now>>
    /\ UNCHANGED edgeVars
    /\ UNCHANGED editorVars
    /\ UNCHANGED schemaVars
    /\ UNCHANGED sseVars
    /\ UNCHANGED daysVars
    /\ UNCHANGED chatVars

\* handleClearFile()
HandleClearFile ==
    /\ ShowsFileSelected
    /\ selectedFile' = FALSE
    /\ uploadState' = "idle"
    /\ uploadError' = FALSE
    /\ UNCHANGED <<upVersion, uploadDialogOpen, abortController, uploads,
                   location, nextUpload, now>>
    /\ UNCHANGED edgeVars
    /\ UNCHANGED editorVars
    /\ UNCHANGED schemaVars
    /\ UNCHANGED sseVars
    /\ UNCHANGED daysVars
    /\ UNCHANGED chatVars

\* handleUpload() up to its await, from Upload or from Try again.
HandleUpload ==
    /\ ShowsFileSelected \/ ShowsRetry
    /\ selectedFile
    /\ nextUpload <= MaxUploads
    /\ uploadState' = "uploading"
    /\ uploadError' = FALSE
    /\ abortController' = "armed"
    /\ uploads' = uploads \cup {[n |-> nextUpload, cancelled |-> FALSE]}
    /\ nextUpload' = nextUpload + 1
    /\ UNCHANGED <<upVersion, selectedFile, uploadDialogOpen, location, now>>
    /\ UNCHANGED edgeVars
    /\ UNCHANGED editorVars
    /\ UNCHANGED schemaVars
    /\ UNCHANGED sseVars
    /\ UNCHANGED daysVars
    /\ UNCHANGED chatVars

\* handleCancel() / handleCancelUpload(): the user cancels the uploads that
\* are in flight.
HandleCancel ==
    /\ ShowsProcessing
    /\ abortController' = IF abortController = "null" THEN "null" ELSE "aborted"
    /\ uploadState' = "selected"
    /\ uploads' = {[r EXCEPT !.cancelled = TRUE] : r \in AbortRequests(uploads)}
    /\ UNCHANGED <<upVersion, selectedFile, uploadError, uploadDialogOpen,
                   location, nextUpload, now>>
    /\ UNCHANGED edgeVars
    /\ UNCHANGED editorVars
    /\ UNCHANGED schemaVars
    /\ UNCHANGED sseVars
    /\ UNCHANGED daysVars
    /\ UNCHANGED chatVars

\* uploadContract resolved: the rest of the try block.  State setters do
\* nothing once the component is unmounted; navigate still works.
UploadSucceeds ==
    \E r \in uploads :
        /\ uploads' = uploads \ {r}
        /\ location' = r.n
        /\ IF upVersion = "part_005" /\ Mounted
           THEN /\ uploadDialogOpen' = FALSE
                /\ uploadState' = "idle"
                /\ selectedFile' = FALSE
           ELSE UNCHANGED <<uploadDialogOpen, uploadState, selectedFile>>
        /\ UNCHANGED <<upVersion, uploadError, abortController, nextUpload, now>>
        /\ UNCHANGED edgeVars
        /\ UNCHANGED editorVars
        /\ UNCHANGED schemaVars
        /\ UNCHANGED sseVars
        /\ UNCHANGED daysVars
        /\ UNCHANGED chatVars

\* uploadContract rejected: the catch block.
UploadFails ==
    \E r \in uploads :
        /\ uploads' = uploads \ {r}
        /\ IF Mounted
           THEN uploadError' = TRUE /\ uploadState' = "error"
           ELSE UNCHANGED <<uploadError, uploadState>>
        /\ UNCHANGED <<upVersion, selectedFile, uploadDialogOpen,
                       abortController, location, nextUpload, now>>
        /\ UNCHANGED edgeVars
        /\ UNCHANGED editorVars
        /\ UNCHANGED schemaVars
        /\ UNCHANGED sseVars
        /\ UNCHANGED daysVars
        /\ UNCHANGED chatVars

NextUpload ==
    \/ OpenUploadDialog
    \/ HandleCloseUploadDialog
    \/ HandleFileSelect
    \/ HandleClearFile
    \/ HandleUpload
    \/ HandleCancel
    \/ UploadSucceeds
    \/ UploadFails

SpecUpload == InitUpload /\ [][NextUpload]_vars

\* ---- claims about the upload ----

\* C17: after the user cancelled an upload, the cancelled request has no
\* further effect on the page: when it later succeeds or fails it neither
\* navigates to the contract page nor changes the upload state.
C17_Original_CancelledUploadIsInert ==
    [][\A r \in uploads :
          (r.cancelled /\ uploads' = uploads \ {r}) =>
              /\ location' = location
              /\ uploadState' = uploadState]_vars


=============================================================================
